---- MODULE Spec2Model ----
(***************************************************************************)
(* The page cache of amfora (package cache, src/display/newtab.go lines    *)
(* 368-502): a map from URL to page (pages), the URLs in the order kept by *)
(* the code (urls), a page-count limit (maxPages), a byte limit (maxSize)  *)
(* and a timeout.  Every exported function is one action.                  *)
(***************************************************************************)
EXTENDS Integers, Sequences, FiniteSets, TLC

\* ------------------------------------------------------------------ bounds
\* Largest value handed to SetMaxPages.
MaxN == 3
\* Largest value handed to SetMaxSize.
MaxB == 2
\* Largest p.Size() of a page handed to AddPage.
MaxDocSize == 2
\* Largest number of seconds handed to SetTimeout.
MaxTTL == 1
\* Number of clock steps (of half a second each) the clock can make.
MaxTick == 2

\* time.Second, in nanoseconds (the unit of time.Duration).
Second == 1000000000
HalfSecond == Second \div 2

\* The URLs a caller may pass; "" is the URL AddPage refuses.
URLs == {"a", "b", "c"}
\* The larger URL set of the insertion-history specification.
HistURLs == {"a", "b", "c", "d", "e"}

DocSizes == 0..MaxDocSize
Times == {k * HalfSecond : k \in 0..MaxTick}

\* A *structs.Page, as far as the cache reads it: p.URL, p.Size(), p.MadeAt.
Page(u, n, t) == [URL |-> u, Size |-> n, MadeAt |-> t]
\* The nil page.
NoPage == Page("", 0, 0)

VARIABLES
    pages,      \* map[string]*structs.Page: a function whose domain is the key set
    urls,       \* []string
    maxPages,   \* int
    maxSize,    \* int
    timeout,    \* time.Duration, in nanoseconds
    now,        \* time.Now(), in nanoseconds since the start
    panicked,   \* a call ended in a run-time panic (index out of range)
    last,       \* the last event: the call made (name, page or URL, int argument)
                \* or a step of the clock
    ret,        \* what the last call returned
    hist,       \* history of the calls, kept only by the history specification
    mu,         \* sync.RWMutex: the goroutine holding it for writing (0: none)
                \* and the goroutines holding it for reading
    procs       \* the goroutines of the concurrent specifications: where each
                \* is in its call, the call's argument and its local variables

vars == <<pages, urls, maxPages, maxSize, timeout, now, panicked, last, ret, hist,
          mu, procs>>

\* ------------------------------------------------------------ pure helpers
Range(s) == {s[i] : i \in 1..Len(s)}

\* delete(pages, url)
Drop(pg, url) == [u \in (DOMAIN pg) \ {url} |-> pg[u]]
\* pages[url] = p
Put(pg, url, p) == [u \in (DOMAIN pg) \cup {url} |-> IF u = url THEN p ELSE pg[u]]

RECURSIVE SumSizes(_, _)
SumSizes(pg, S) ==
    IF S = {} THEN 0
    ELSE LET u == CHOOSE x \in S : TRUE
         IN  pg[u].Size + SumSizes(pg, S \ {u})

\* The body of SizePages: the sum of page.Size() over the map.
SizeOf(pg) == SumSizes(pg, DOMAIN pg)
\* The body of NumPages: len(pages).
NumOf(pg) == Cardinality(DOMAIN pg)

\* Mutant of removeIndex: the last element is cut off without the swap.
removeIndex_noswap(s, i) == [j \in 1..(Len(s) - 1) |-> s[j]]

\* removeIndex: swap s[i] with the last element, then cut the last element off.
\* (Indices are 1-based here, 0-based in the code.)
removeIndex(s, i) ==
    [j \in 1..(Len(s) - 1) |-> IF j = i THEN s[Len(s)] ELSE s[j]]

\* The first index of url in us (the loop of removeURL returns at the first hit).
FirstIndex(us, url) ==
    CHOOSE i \in 1..Len(us) : us[i] = url /\ \A j \in 1..(i - 1) : us[j] # url

\* removeURL: remove the first occurrence of url, if any.
removeURL(us, url) ==
    IF \E i \in 1..Len(us) : us[i] = url
    THEN removeIndex(us, FirstIndex(us, url))
    ELSE us

\* The cache as a value: what the mutating functions read and write.
Cache == [pages |-> pages, urls |-> urls, panicked |-> panicked]

\* The body of RemovePage on a cache value.
RemovePageOn(c, url) ==
    [c EXCEPT !.pages = Drop(c.pages, url), !.urls = removeURL(c.urls, url)]

\* Mutant of EvictForCount: the loop test is > instead of >=.
RECURSIVE EvictForCount_gt(_, _)
EvictForCount_gt(c, maxP) ==
    IF NumOf(c.pages) > maxP /\ maxP > 0
    THEN IF c.urls = <<>>
         THEN [c EXCEPT !.panicked = TRUE]
         ELSE EvictForCount_gt(RemovePageOn(c, c.urls[1]), maxP)
    ELSE c

\* Mutant of EvictForCount: an if instead of the loop (one eviction at most).
EvictForCount_once(c, maxP) ==
    IF NumOf(c.pages) >= maxP /\ maxP > 0
    THEN IF c.urls = <<>>
         THEN [c EXCEPT !.panicked = TRUE]
         ELSE RemovePageOn(c, c.urls[1])
    ELSE c

\* AddPage's first loop: for NumPages() >= maxPages && maxPages > 0 { RemovePage(urls[0]) }.
\* urls[0] of an empty slice is a run-time panic.
RECURSIVE EvictForCount(_, _)
EvictForCount(c, maxP) ==
    IF NumOf(c.pages) >= maxP /\ maxP > 0
    THEN IF c.urls = <<>>
         THEN [c EXCEPT !.panicked = TRUE]
         ELSE EvictForCount(RemovePageOn(c, c.urls[1]), maxP)
    ELSE c

\* Mutant of EvictForSize: the loop test leaves the new page's size out.
RECURSIVE EvictForSize_nonew(_, _, _)
EvictForSize_nonew(c, maxS, psize) ==
    IF SizeOf(c.pages) > maxS /\ maxS > 0
    THEN IF c.urls = <<>>
         THEN [c EXCEPT !.panicked = TRUE]
         ELSE EvictForSize_nonew(RemovePageOn(c, c.urls[1]), maxS, psize)
    ELSE c

\* Mutant of EvictForSize: the loop test is >= instead of >.
RECURSIVE EvictForSize_ge(_, _, _)
EvictForSize_ge(c, maxS, psize) ==
    IF SizeOf(c.pages) + psize >= maxS /\ maxS > 0
    THEN IF c.urls = <<>>
         THEN [c EXCEPT !.panicked = TRUE]
         ELSE EvictForSize_ge(RemovePageOn(c, c.urls[1]), maxS, psize)
    ELSE c

\* AddPage's second loop: for SizePages()+p.Size() > maxSize && maxSize > 0 { RemovePage(urls[0]) }.
RECURSIVE EvictForSize(_, _, _)
EvictForSize(c, maxS, psize) ==
    IF SizeOf(c.pages) + psize > maxS /\ maxS > 0
    THEN IF c.urls = <<>>
         THEN [c EXCEPT !.panicked = TRUE]
         ELSE EvictForSize(RemovePageOn(c, c.urls[1]), maxS, psize)
    ELSE c

\* Mutant of Refused: the empty URL is not refused.
Refused_anyurl(p, maxS) == p.Size > maxS /\ maxS > 0
\* Mutant of Refused: a page of exactly maxSize bytes is refused too.
Refused_ge(p, maxS) == p.URL = "" \/ (p.Size >= maxS /\ maxS > 0)

\* AddPage's two early returns: an empty URL, a page larger than the whole cache.
Refused(p, maxS) == p.URL = "" \/ (p.Size > maxS /\ maxS > 0)

\* Mutant of Store: the URL is appended without removing its old position.
Store_keep(c, p) ==
    [c EXCEPT !.pages = Put(c.pages, p.URL, p),
              !.urls = Append(c.urls, p.URL)]

\* AddPage's last three statements: pages[p.URL] = p; removeURL(p.URL); append.
Store(c, p) ==
    [c EXCEPT !.pages = Put(c.pages, p.URL, p),
              !.urls = Append(removeURL(c.urls, p.URL), p.URL)]

\* The cache after the two eviction loops of AddPage.
Evicted(c, p, maxP, maxS) ==
    LET c1 == EvictForCount(c, maxP)
    IN  IF c1.panicked THEN c1 ELSE EvictForSize(c1, maxS, p.Size)

\* AddPage on a cache value.
AddPageOn(c, p, maxP, maxS) ==
    IF Refused(p, maxS) THEN c
    ELSE LET c2 == Evicted(c, p, maxP, maxS)
         IN  IF c2.panicked THEN c2 ELSE Store(c2, p)

\* Mutant of Fresh: a page whose age equals the timeout still counts as fresh.
Fresh_le(p, to, t) == to = 0 \/ t - p.MadeAt <= to

\* GetPage's test: ok && (timeout == 0 || time.Since(p.MadeAt) < timeout).
Fresh(p, to, t) == to = 0 \/ t - p.MadeAt < to

\* GetPage's result on a map.
GetPageOn(pg, url, to, t) ==
    IF url \in DOMAIN pg /\ Fresh(pg[url], to, t)
    THEN [found |-> TRUE, page |-> pg[url], n |-> 0]
    ELSE [found |-> FALSE, page |-> NoPage, n |-> 0]

\* SetTimeout's value: 0 for t <= 0, else time.Duration(t) * time.Second.
TimeoutOf(t) == IF t <= 0 THEN 0 ELSE t * Second

\* The return value of a function that returns nothing.
Nothing == [found |-> FALSE, page |-> NoPage, n |-> 0]
\* The page stored under url, or the nil page.
Stored(pg, url) == IF url \in DOMAIN pg THEN pg[url] ELSE NoPage
\* The record of a call: its name, its page (or its URL, as a page), its int
\* argument, the page that was stored under that URL when the call started, and
\* the URLs the call took out of the map.
Call(op, p, arg, pg, pg2) ==
    [op |-> op, page |-> p, arg |-> arg, old |-> Stored(pg, p.URL),
     evicted |-> (DOMAIN pg) \ (DOMAIN pg2)]
NoHist == [fifo |-> TRUE, added |-> <<>>, watch |-> "", mates |-> {}]

\* The goroutines of the concurrent specifications.
Procs == {1, 2}
\* The zero value of sync.RWMutex.
Unlocked == [writer |-> 0, readers |-> {}]
\* A goroutine between two calls, with `left` calls still to make.  pc is the
\* statement it executes next, op and page its call and argument, victim the
\* URL it read from urls[0] (or RemovePage's parameter), back where RemovePage
\* returns to.
IdleProc(left) ==
    [pc |-> "idle", op |-> "none", page |-> NoPage, victim |-> "",
     back |-> "idle", left |-> left]
\* The single-caller specifications run no goroutine of their own.
NoProcs == [t \in Procs |-> IdleProc(0)]

\* ------------------------------------------------------------------ state
\* The package-level variables as declared.
Init ==
    /\ pages = <<>>
    /\ urls = <<>>
    /\ maxPages = 0
    /\ maxSize = 0
    /\ timeout = 0
    /\ now = 0
    /\ panicked = FALSE
    /\ last = Call("init", NoPage, 0, <<>>, <<>>)
    /\ ret = Nothing
    /\ hist = NoHist
    /\ mu = Unlocked
    /\ procs = NoProcs

\* ---------------------------------------------------------------- actions
SetMaxPages(max) ==
    /\ ~panicked
    /\ maxPages' = max
    /\ last' = Call("SetMaxPages", NoPage, max, pages, pages)
    /\ ret' = Nothing
    /\ UNCHANGED <<pages, urls, maxSize, timeout, now, panicked, hist, mu, procs>>

SetMaxSize(max) ==
    /\ ~panicked
    /\ maxSize' = max
    /\ last' = Call("SetMaxSize", NoPage, max, pages, pages)
    /\ ret' = Nothing
    /\ UNCHANGED <<pages, urls, maxPages, timeout, now, panicked, hist, mu, procs>>

SetTimeout(t) ==
    /\ ~panicked
    /\ timeout' = TimeoutOf(t)
    /\ last' = Call("SetTimeout", NoPage, t, pages, pages)
    /\ ret' = Nothing
    /\ UNCHANGED <<pages, urls, maxPages, maxSize, now, panicked, hist, mu, procs>>

\* AddPage without the history bookkeeping.
AddPageCall(p) ==
    /\ ~panicked
    /\ LET c == AddPageOn(Cache, p, maxPages, maxSize)
       IN  /\ pages' = c.pages
           /\ urls' = c.urls
           /\ panicked' = c.panicked
           /\ last' = Call("AddPage", p, 0, pages, c.pages)
    /\ ret' = Nothing
    /\ UNCHANGED <<maxPages, maxSize, timeout, now, mu, procs>>

AddPage(p) == AddPageCall(p) /\ UNCHANGED hist

RemovePageCall(url) ==
    /\ ~panicked
    /\ LET c == RemovePageOn(Cache, url)
       IN  /\ pages' = c.pages
           /\ urls' = c.urls
           /\ last' = Call("RemovePage", Page(url, 0, 0), 0, pages, c.pages)
    /\ ret' = Nothing
    /\ UNCHANGED <<maxPages, maxSize, timeout, now, panicked, mu, procs>>

RemovePage(url) == RemovePageCall(url) /\ UNCHANGED hist

\* Mutant of ClearPagesCall: the map is replaced, the slice is not.
ClearPagesCall_maponly ==
    /\ ~panicked
    /\ pages' = <<>>
    /\ urls' = urls
    /\ last' = Call("ClearPages", NoPage, 0, pages, <<>>)
    /\ ret' = Nothing
    /\ UNCHANGED <<maxPages, maxSize, timeout, now, panicked, mu, procs>>

ClearPagesCall ==
    /\ ~panicked
    /\ pages' = <<>>
    /\ urls' = <<>>
    /\ last' = Call("ClearPages", NoPage, 0, pages, <<>>)
    /\ ret' = Nothing
    /\ UNCHANGED <<maxPages, maxSize, timeout, now, panicked, mu, procs>>

ClearPages == ClearPagesCall /\ UNCHANGED hist

SizePages ==
    /\ ~panicked
    /\ last' = Call("SizePages", NoPage, 0, pages, pages)
    /\ ret' = [found |-> FALSE, page |-> NoPage, n |-> SizeOf(pages)]
    /\ UNCHANGED <<pages, urls, maxPages, maxSize, timeout, now, panicked, hist, mu, procs>>

NumPages ==
    /\ ~panicked
    /\ last' = Call("NumPages", NoPage, 0, pages, pages)
    /\ ret' = [found |-> FALSE, page |-> NoPage, n |-> NumOf(pages)]
    /\ UNCHANGED <<pages, urls, maxPages, maxSize, timeout, now, panicked, hist, mu, procs>>

\* Mutant of GetPage: a lookup that finds a stale page removes it.
GetPage_evict(url) ==
    /\ ~panicked
    /\ last' = Call("GetPage", Page(url, 0, 0), 0, pages, pages)
    /\ ret' = GetPageOn(pages, url, timeout, now)
    /\ LET c == IF url \in DOMAIN pages /\ ~Fresh(pages[url], timeout, now)
                THEN RemovePageOn(Cache, url) ELSE Cache
       IN  pages' = c.pages /\ urls' = c.urls
    /\ UNCHANGED <<maxPages, maxSize, timeout, now, panicked, hist, mu, procs>>

GetPage(url) ==
    /\ ~panicked
    /\ last' = Call("GetPage", Page(url, 0, 0), 0, pages, pages)
    /\ ret' = GetPageOn(pages, url, timeout, now)
    /\ UNCHANGED <<pages, urls, maxPages, maxSize, timeout, now, panicked, hist, mu, procs>>

\* The clock advances by half a second (the environment, not the cache).
Tick ==
    /\ now < MaxTick * HalfSecond
    /\ now' = now + HalfSecond
    /\ last' = Call("Tick", NoPage, 0, pages, pages)
    /\ ret' = Nothing
    /\ UNCHANGED <<pages, urls, maxPages, maxSize, timeout, panicked, hist, mu, procs>>

\* ----------------------------------------------------------------- inputs
\* The pages a caller can hand to AddPage at time t: made at t or earlier.
PageInputs(t) ==
    {Page(u, n, m) : u \in URLs \cup {""}, n \in DocSizes, m \in {x \in Times : x <= t}}
LimitInputs == -1..MaxN
SizeInputs == -1..MaxB
TTLInputs == -1..MaxTTL

\* --------------------------------------------------------- specifications
\* One caller, every function of the package, the clock standing still (the
\* capacity code reads neither the clock nor MadeAt).
Next ==
    \/ \E p \in PageInputs(now) : AddPage(p)
    \/ \E u \in URLs : RemovePage(u)
    \/ ClearPages
    \/ SizePages
    \/ NumPages
    \/ \E u \in URLs : GetPage(u)
    \/ \E n \in LimitInputs : SetMaxPages(n)
    \/ \E n \in SizeInputs : SetMaxSize(n)

Spec == Init /\ [][Next]_vars

\* The state after config.Init has set both limits (lines 334-335), which are
\* then left alone: the functions of the package except the two limit setters.
InitFixed ==
    /\ pages = <<>>
    /\ urls = <<>>
    /\ maxSize \in SizeInputs
    /\ maxPages \in LimitInputs
    /\ timeout = 0
    /\ now = 0
    /\ panicked = FALSE
    /\ last = Call("init", NoPage, 0, <<>>, <<>>)
    /\ ret = Nothing
    /\ hist = NoHist
    /\ mu = Unlocked
    /\ procs = NoProcs

NextFixed ==
    \/ \E p \in PageInputs(now) : AddPage(p)
    \/ \E u \in URLs : RemovePage(u)
    \/ ClearPages
    \/ SizePages
    \/ NumPages
    \/ \E u \in URLs : GetPage(u)

SpecFixed == InitFixed /\ [][NextFixed]_vars

\* The clock runs and the timeout is set: pages of one size, the byte limit at
\* its default (line 316), the page limit set once.
TTLPageInputs(t) ==
    {Page(u, 1, m) : u \in URLs \cup {""}, m \in {x \in Times : x <= t}}

InitTTL ==
    /\ pages = <<>>
    /\ urls = <<>>
    /\ maxSize = 0
    /\ maxPages \in 0..MaxN
    /\ timeout = 0
    /\ now = 0
    /\ panicked = FALSE
    /\ last = Call("init", NoPage, 0, <<>>, <<>>)
    /\ ret = Nothing
    /\ hist = NoHist
    /\ mu = Unlocked
    /\ procs = NoProcs

NextTTL ==
    \/ \E p \in TTLPageInputs(now) : AddPage(p)
    \/ \E u \in URLs : RemovePage(u)
    \/ ClearPages
    \/ SizePages
    \/ NumPages
    \/ \E u \in URLs : GetPage(u)
    \/ \E t \in TTLInputs : SetTimeout(t)
    \/ Tick

SpecTTL == InitTTL /\ [][NextTTL]_vars

\* ---------------------------------------------------------------- history
\* The history specification runs the same AddPage, RemovePage and ClearPages and
\* keeps, beside the cache, a record of what the caller did:
\*   fifo    the calls since the cache was last empty (at the start, after
\*           ClearPages) were all accepted AddPage calls of pairwise distinct URLs;
\*   added   those URLs, in the order of the calls (<<>> once fifo is FALSE);
\*   watch   the URL most recently re-inserted (AddPage of a URL that was
\*           stored), "" if none or once it left the cache;
\*   mates   the URLs that were stored together with watch right after that
\*           AddPage, are still stored, and have not been inserted again since.
HistAfterAdd(h, p, pg, pg2, refused) ==
    LET u == p.URL
        run == IF h.fifo /\ ~refused /\ u \notin Range(h.added)
               THEN [fifo |-> TRUE, added |-> Append(h.added, u)]
               ELSE [fifo |-> FALSE, added |-> <<>>]
        seen == IF refused THEN [watch |-> h.watch, mates |-> h.mates]
                ELSE IF u \in DOMAIN pg
                THEN [watch |-> u, mates |-> (DOMAIN pg2) \ {u}]
                ELSE IF h.watch \notin DOMAIN pg2
                THEN [watch |-> "", mates |-> {}]
                ELSE [watch |-> h.watch, mates |-> (h.mates \cap DOMAIN pg2) \ {u}]
    IN  [fifo |-> run.fifo, added |-> run.added, watch |-> seen.watch, mates |-> seen.mates]

HistAfterRemove(h, url) ==
    IF url = h.watch
    THEN [fifo |-> FALSE, added |-> <<>>, watch |-> "", mates |-> {}]
    ELSE [fifo |-> FALSE, added |-> <<>>, watch |-> h.watch, mates |-> h.mates \ {url}]

HistAddPage(p) ==
    /\ AddPageCall(p)
    /\ hist' = HistAfterAdd(hist, p, pages, pages', Refused(p, maxSize))

HistRemovePage(url) ==
    /\ RemovePageCall(url)
    /\ hist' = HistAfterRemove(hist, url)

HistClearPages ==
    /\ ClearPagesCall
    /\ hist' = NoHist

\* Pages of one size, made at the start: the history is about the order only.
HistPageInputs == {Page(u, 1, 0) : u \in HistURLs}

\* A page limit N >= 1 set once (config.Init), no byte limit.
InitHist ==
    /\ pages = <<>>
    /\ urls = <<>>
    /\ maxSize = 0
    /\ maxPages \in 1..MaxN
    /\ timeout = 0
    /\ now = 0
    /\ panicked = FALSE
    /\ last = Call("init", NoPage, 0, <<>>, <<>>)
    /\ ret = Nothing
    /\ hist = NoHist
    /\ mu = Unlocked
    /\ procs = NoProcs

NextHist ==
    \/ \E p \in HistPageInputs : HistAddPage(p)
    \/ \E u \in HistURLs : HistRemovePage(u)
    \/ HistClearPages

SpecHist == InitHist /\ [][NextHist]_vars

\* ------------------------------------------------------------ goroutines
\* The exported functions statement by statement, called by the goroutines of
\* Procs.  Each goroutine makes at most MaxCalls calls.  The limits are set
\* once at start-up; the clock and the timeout play no part.
MaxCalls == 2
ConcURLs == {"a", "b"}
ConcPages == {Page(u, n, 0) : u \in ConcURLs, n \in 1..MaxDocSize}

\* sync.RWMutex: RLock waits for the writer, Lock for the writer and the readers.
\* Mutant of CanRLock: a reader does not wait for the writer.
CanRLock_always(m) == TRUE
CanRLock(m) == m.writer = 0
CanLock(m) == m.writer = 0 /\ m.readers = {}

At(t, pc) == ~panicked /\ procs[t].pc = pc
Goto(t, pc) == procs' = [procs EXCEPT ![t].pc = pc]
\* return from the exported function
Return(t) == procs' = [procs EXCEPT ![t] = IdleProc(procs[t].left - 1)]
\* return from RemovePage: to AddPage's loop, or to the caller of RemovePage
ReturnFromRemove(t) ==
    IF procs[t].back = "idle" THEN Return(t) ELSE Goto(t, procs[t].back)
Quiet == UNCHANGED <<maxPages, maxSize, timeout, now, ret, hist>>

\* A goroutine calls AddPage(p); the two early returns are taken at once.
StartAddPage(t) ==
    /\ At(t, "idle")
    /\ procs[t].left > 0
    /\ \E p \in ConcPages \cup {Page("", 1, 0)} :
          procs' = [procs EXCEPT ![t] =
                       IF Refused(p, maxSize)
                       THEN IdleProc(procs[t].left - 1)
                       ELSE [@ EXCEPT !.pc = "cnt_rlock", !.op = "AddPage",
                                      !.page = p]]
    /\ UNCHANGED <<pages, urls, panicked, mu, last>>
    /\ Quiet

\* NumPages() in the first loop condition: mu.RLock()
CountRLock(t) ==
    /\ At(t, "cnt_rlock")
    /\ CanRLock(mu)
    /\ mu' = [mu EXCEPT !.readers = @ \cup {t}]
    /\ Goto(t, "cnt_read")
    /\ UNCHANGED <<pages, urls, panicked, last>>
    /\ Quiet

\* return len(pages), the deferred mu.RUnlock(), and the loop test
CountRead(t) ==
    /\ At(t, "cnt_read")
    /\ mu' = [mu EXCEPT !.readers = @ \ {t}]
    /\ Goto(t, IF NumOf(pages) >= maxPages /\ maxPages > 0
               THEN "cnt_head" ELSE "sz_rlock")
    /\ UNCHANGED <<pages, urls, panicked, last>>
    /\ Quiet

\* The argument urls[0] of RemovePage in a loop body, read with no lock held:
\* an index out of range panics.
HeadRead(t, pc, back) ==
    /\ At(t, pc)
    /\ IF urls = <<>>
       THEN /\ panicked' = TRUE
            /\ UNCHANGED procs
       ELSE /\ procs' = [procs EXCEPT ![t].pc = "rm_lock", ![t].victim = urls[1],
                                      ![t].back = back]
            /\ UNCHANGED panicked
    /\ UNCHANGED <<pages, urls, mu, last>>
    /\ Quiet
CountHead(t) == HeadRead(t, "cnt_head", "cnt_rlock")

\* SizePages() in the second loop condition: mu.RLock()
SizeRLock(t) ==
    /\ At(t, "sz_rlock")
    /\ CanRLock(mu)
    /\ mu' = [mu EXCEPT !.readers = @ \cup {t}]
    /\ Goto(t, "sz_read")
    /\ UNCHANGED <<pages, urls, panicked, last>>
    /\ Quiet

\* the sum, the deferred mu.RUnlock(), and the loop test
SizeRead(t) ==
    /\ At(t, "sz_read")
    /\ mu' = [mu EXCEPT !.readers = @ \ {t}]
    /\ Goto(t, IF SizeOf(pages) + procs[t].page.Size > maxSize /\ maxSize > 0
               THEN "sz_head" ELSE "st_lock")
    /\ UNCHANGED <<pages, urls, panicked, last>>
    /\ Quiet
SizeHead(t) == HeadRead(t, "sz_head", "sz_rlock")

\* AddPage's mu.Lock(); last records the call that took the write lock last.
StoreLock(t) ==
    /\ At(t, "st_lock")
    /\ CanLock(mu)
    /\ mu' = [mu EXCEPT !.writer = t]
    /\ Goto(t, "st_put")
    /\ last' = Call("AddPage", procs[t].page, 0, pages, pages)
    /\ UNCHANGED <<pages, urls, panicked>>
    /\ Quiet

\* pages[p.URL] = p
StorePut(t) ==
    /\ At(t, "st_put")
    /\ pages' = Put(pages, procs[t].page.URL, procs[t].page)
    /\ Goto(t, "st_rm")
    /\ UNCHANGED <<urls, panicked, mu, last>>
    /\ Quiet

\* urls = removeURL(urls, p.URL)
StoreRemoveURL(t) ==
    /\ At(t, "st_rm")
    /\ urls' = removeURL(urls, procs[t].page.URL)
    /\ Goto(t, "st_app")
    /\ UNCHANGED <<pages, panicked, mu, last>>
    /\ Quiet

\* urls = append(urls, p.URL) and the deferred mu.Unlock()
StoreAppend(t) ==
    /\ At(t, "st_app")
    /\ urls' = Append(urls, procs[t].page.URL)
    /\ mu' = [mu EXCEPT !.writer = 0]
    /\ Return(t)
    /\ UNCHANGED <<pages, panicked, last>>
    /\ Quiet

\* A goroutine calls RemovePage(url).
StartRemovePage(t) ==
    /\ At(t, "idle")
    /\ procs[t].left > 0
    /\ \E url \in ConcURLs :
          procs' = [procs EXCEPT ![t].pc = "rm_lock", ![t].op = "RemovePage",
                                 ![t].victim = url, ![t].back = "idle"]
    /\ UNCHANGED <<pages, urls, panicked, mu, last>>
    /\ Quiet

\* RemovePage's mu.Lock()
RemoveLock(t) ==
    /\ At(t, "rm_lock")
    /\ CanLock(mu)
    /\ mu' = [mu EXCEPT !.writer = t]
    /\ Goto(t, "rm_del")
    /\ UNCHANGED <<pages, urls, panicked, last>>
    /\ Quiet

\* delete(pages, url)
RemoveDelete(t) ==
    /\ At(t, "rm_del")
    /\ pages' = Drop(pages, procs[t].victim)
    /\ Goto(t, "rm_url")
    /\ UNCHANGED <<urls, panicked, mu, last>>
    /\ Quiet

\* urls = removeURL(urls, url) and the deferred mu.Unlock()
RemoveURLUnlock(t) ==
    /\ At(t, "rm_url")
    /\ urls' = removeURL(urls, procs[t].victim)
    /\ mu' = [mu EXCEPT !.writer = 0]
    /\ ReturnFromRemove(t)
    /\ UNCHANGED <<pages, panicked, last>>
    /\ Quiet

\* A goroutine calls ClearPages().
StartClearPages(t) ==
    /\ At(t, "idle")
    /\ procs[t].left > 0
    /\ procs' = [procs EXCEPT ![t].pc = "clr_lock", ![t].op = "ClearPages"]
    /\ UNCHANGED <<pages, urls, panicked, mu, last>>
    /\ Quiet

\* ClearPages' mu.Lock()
ClearLock(t) ==
    /\ At(t, "clr_lock")
    /\ CanLock(mu)
    /\ mu' = [mu EXCEPT !.writer = t]
    /\ Goto(t, "clr_pages")
    /\ UNCHANGED <<pages, urls, panicked, last>>
    /\ Quiet

\* pages = make(map[string]*structs.Page)
ClearMap(t) ==
    /\ At(t, "clr_pages")
    /\ pages' = <<>>
    /\ Goto(t, "clr_urls")
    /\ UNCHANGED <<urls, panicked, mu, last>>
    /\ Quiet

\* urls = nil and the deferred mu.Unlock()
ClearURLsUnlock(t) ==
    /\ At(t, "clr_urls")
    /\ urls' = <<>>
    /\ mu' = [mu EXCEPT !.writer = 0]
    /\ Return(t)
    /\ UNCHANGED <<pages, panicked, last>>
    /\ Quiet

\* A goroutine calls GetPage(url).
StartGetPage(t) ==
    /\ At(t, "idle")
    /\ procs[t].left > 0
    /\ \E url \in ConcURLs :
          procs' = [procs EXCEPT ![t].pc = "get_rlock", ![t].op = "GetPage",
                                 ![t].victim = url]
    /\ UNCHANGED <<pages, urls, panicked, mu, last>>
    /\ Quiet

\* GetPage's mu.RLock()
GetRLock(t) ==
    /\ At(t, "get_rlock")
    /\ CanRLock(mu)
    /\ mu' = [mu EXCEPT !.readers = @ \cup {t}]
    /\ Goto(t, "get_read")
    /\ UNCHANGED <<pages, urls, panicked, last>>
    /\ Quiet

\* the read of pages[url] and the deferred mu.RUnlock()
GetRead(t) ==
    /\ At(t, "get_read")
    /\ mu' = [mu EXCEPT !.readers = @ \ {t}]
    /\ Return(t)
    /\ UNCHANGED <<pages, urls, panicked, last>>
    /\ Quiet

\* The statements of AddPage, those of the RemovePage it calls included.
AddPageSteps(t) ==
    \/ CountRLock(t)
    \/ CountRead(t)
    \/ CountHead(t)
    \/ SizeRLock(t)
    \/ SizeRead(t)
    \/ SizeHead(t)
    \/ StoreLock(t)
    \/ StorePut(t)
    \/ StoreRemoveURL(t)
    \/ StoreAppend(t)
    \/ RemoveLock(t)
    \/ RemoveDelete(t)
    \/ RemoveURLUnlock(t)

\* The limits config.Init may have set, each goroutine with MaxCalls calls to make.
ConcLimits == {<<1, 0>>, <<2, 0>>, <<0, MaxB>>}
InitConc ==
    /\ pages = <<>>
    /\ urls = <<>>
    /\ \E l \in ConcLimits : maxPages = l[1] /\ maxSize = l[2]
    /\ timeout = 0
    /\ now = 0
    /\ panicked = FALSE
    /\ last = Call("init", NoPage, 0, <<>>, <<>>)
    /\ ret = Nothing
    /\ hist = NoHist
    /\ mu = Unlocked
    /\ procs = [t \in Procs |-> IdleProc(MaxCalls)]

\* Goroutines that call AddPage only.
NextAdds ==
    \E t \in Procs :
        \/ StartAddPage(t)
        \/ AddPageSteps(t)
SpecAdds == InitConc /\ [][NextAdds]_vars

\* Goroutines that call AddPage, RemovePage, ClearPages and GetPage.
NextConc ==
    \E t \in Procs :
        \/ StartAddPage(t)
        \/ AddPageSteps(t)
        \/ StartRemovePage(t)
        \/ StartClearPages(t)
        \/ ClearLock(t)
        \/ ClearMap(t)
        \/ ClearURLsUnlock(t)
        \/ StartGetPage(t)
        \/ GetRLock(t)
        \/ GetRead(t)
SpecConc == InitConc /\ [][NextConc]_vars

\* ------------------------------------------------------------------ claims
\* C1. Count bound, one caller: with maxPages fixed at N > 0, after every call
\* of AddPage, RemovePage, ClearPages and GetPage the number of pages is <= N.
CountBound == maxPages > 0 => NumOf(pages) <= maxPages

\* An AddPage at the limit that put one page out to let its own in.
CountBoundWitness ==
    /\ last.op = "AddPage"
    /\ maxPages > 0
    /\ NumOf(pages) = maxPages
    /\ last.evicted # {}
    /\ last.page.URL \in DOMAIN pages

\* C2. Byte bound, one caller: with maxSize fixed at B > 0, after every call the
\* sum of the sizes of the stored pages is <= B, also when AddPage replaces a
\* stored page by one of another size.
ByteBound == maxSize > 0 => SizeOf(pages) <= maxSize

\* An AddPage that replaced a stored page by a larger one and had to put
\* another page out to stay within the byte limit.
ByteBoundWitness ==
    /\ last.op = "AddPage"
    /\ maxSize > 0
    /\ last.old # NoPage
    /\ last.old.Size < last.page.Size
    /\ last.evicted # {}
    /\ last.page.URL \in DOMAIN pages
    /\ SizeOf(pages) = maxSize

\* C3. Structure consistency: after every call of one caller the URLs in urls
\* are exactly the keys of pages, and no URL occurs twice in urls.
Consistent ==
    /\ Range(urls) = DOMAIN pages
    /\ Len(urls) = Cardinality(Range(urls))

\* An AddPage that replaced a stored page while other pages were stored.
ConsistentWitness ==
    /\ last.op = "AddPage"
    /\ last.old # NoPage
    /\ Len(urls) >= 2
    /\ pages[last.page.URL] = last.page

\* C4. FIFO eviction: with maxPages = N > 0 and no byte limit, when one caller
\* adds k pairwise distinct URLs one after another to an empty cache, the stored
\* URLs after each AddPage are exactly the min(k, N) most recently added ones.
LastOf(s, n) == {s[i] : i \in (Len(s) - n + 1)..Len(s)}
Min(a, b) == IF a <= b THEN a ELSE b
FifoEviction ==
    (hist.fifo /\ maxPages > 0 /\ maxSize <= 0)
        => DOMAIN pages = LastOf(hist.added, Min(Len(hist.added), maxPages))

\* C5. Re-insertion: after an accepted AddPage of a URL x that was stored, x is
\* the last element of urls, and afterwards x is not evicted by an AddPage
\* while a URL that was stored together with x at that moment, and has not been
\* inserted again since, is still stored.  (The URL of the evicting AddPage
\* itself is not counted among those.  Under SpecHist the page limit is
\* fixed and the cache within it, so an AddPage evicts at most one URL: what is
\* stored when x is evicted is what is stored when the call starts.)
\* The first half holds (ReinsertedIsLastAlways); the second does not.
ReinsertedIsLast ==
    (last'.op = "AddPage" /\ last'.old # NoPage /\ ~Refused(last'.page, maxSize))
        => urls'[Len(urls')] = last'.page.URL
ReinsertedOutlivesMates ==
    (last'.op = "AddPage" /\ hist.watch # "" /\ hist.watch \in last'.evicted)
        => (hist.mates \cap DOMAIN pages) \ {last'.page.URL} = {}
ReinsertedKept == [][ReinsertedIsLast /\ ReinsertedOutlivesMates]_vars
ReinsertedIsLastAlways == [][ReinsertedIsLast]_vars

\* C6. Overwrite: an accepted AddPage of a page under a URL x that is stored
\* (also in a cache that is at its page limit) leaves the number of pages
\* unchanged, leaves x exactly once in urls, and a following GetPage(x), with
\* no timeout, returns the new page.
Occurrences(us, u) == Cardinality({i \in 1..Len(us) : us[i] = u})
OverwriteStep ==
    (last'.op = "AddPage" /\ last'.old # NoPage /\ ~Refused(last'.page, maxSize))
        => /\ NumOf(pages') = NumOf(pages)
           /\ Occurrences(urls', last'.page.URL) = 1
           /\ GetPageOn(pages', last'.page.URL, 0, now') =
                  [found |-> TRUE, page |-> last'.page, n |-> 0]
Overwrite == [][OverwriteStep]_vars

\* C7. An AddPage of a page whose URL is empty changes nothing, in any cache
\* state and under any limits: pages, urls, the number of pages and their total
\* size stay as they were, and nothing is evicted.
EmptyURLStep ==
    (last'.op = "AddPage" /\ last'.page.URL = "")
        => /\ pages' = pages
           /\ urls' = urls
           /\ NumOf(pages') = NumOf(pages)
           /\ SizeOf(pages') = SizeOf(pages)
           /\ last'.evicted = {}
           /\ ~panicked'
EmptyURLNoop == [][EmptyURLStep]_vars

\* An AddPage with the empty URL made while the cache held more pages than its
\* page limit allows: an accepted AddPage would have evicted.
EmptyURLWitness ==
    /\ last.op = "AddPage"
    /\ last.page.URL = ""
    /\ maxPages > 0
    /\ NumOf(pages) > maxPages
    /\ maxSize > 0
    /\ last.page.Size <= maxSize

\* C8. When maxSize > 0 and p.Size() > maxSize, AddPage(p) leaves pages and urls
\* unchanged and evicts nothing, also at the page limit and also when p.URL is
\* stored (the stored page stays); a page with p.Size() = maxSize is not refused.
OversizeStep ==
    /\ (last'.op = "AddPage" /\ maxSize > 0 /\ last'.page.Size > maxSize)
          => /\ pages' = pages
             /\ urls' = urls
             /\ last'.evicted = {}
             /\ ~panicked'
    /\ (last'.op = "AddPage" /\ maxSize > 0 /\ last'.page.Size = maxSize
            /\ last'.page.URL # "")
          => /\ last'.page.URL \in DOMAIN pages'
             /\ pages'[last'.page.URL] = last'.page
             /\ urls'[Len(urls')] = last'.page.URL
OversizeNoop == [][OversizeStep]_vars

\* An oversized page refused while the cache was at its page limit and held a
\* page under the same URL, which is still there.
OversizeWitness ==
    /\ last.op = "AddPage"
    /\ maxSize > 0
    /\ last.page.Size > maxSize
    /\ maxPages > 0
    /\ NumOf(pages) = maxPages
    /\ last.old # NoPage
    /\ pages[last.page.URL] = last.old

\* C9. GetPage(url) returns found = TRUE exactly when url is a key of pages and
\* (the timeout is <= 0 or the time since the page's MadeAt is strictly less than
\* the timeout), and then returns the page most recently added under url;
\* otherwise it returns (nil, false).  SetTimeout(t) sets the timeout to t
\* seconds, and with t <= 0 every stored page is visible whatever its age.
\* "Most recently added" is stated step by step: an accepted AddPage(p) leaves p
\* stored under p.URL, and only that call changes the page stored under a URL.
Visible(pg, u, to, t) == GetPageOn(pg, u, to, t).found
LookupStep ==
    /\ last'.op = "GetPage" =>
          LET u == last'.page.URL
              hit == u \in DOMAIN pages
                       /\ (timeout <= 0 \/ now - pages[u].MadeAt < timeout)
          IN  /\ ret'.found <=> hit
              /\ ret'.found => ret'.page = pages[u]
              /\ ~ret'.found => ret'.page = NoPage
    /\ last'.op = "SetTimeout" =>
          \A u \in DOMAIN pages' :
              Visible(pages', u, timeout', now') <=>
                  (last'.arg <= 0 \/ now' - pages'[u].MadeAt < last'.arg * Second)
    /\ (last'.op = "AddPage" /\ ~Refused(last'.page, maxSize) /\ ~panicked')
          => pages'[last'.page.URL] = last'.page
    /\ \A u \in (DOMAIN pages) \cap (DOMAIN pages') :
          pages'[u] # pages[u] => (last'.op = "AddPage" /\ last'.page = pages'[u])
LookupResult == [][LookupStep]_vars

\* A GetPage, under a timeout, that found a page that has aged but is not stale.
LookupWitness ==
    /\ last.op = "GetPage"
    /\ ret.found
    /\ timeout > 0
    /\ now - ret.page.MadeAt > 0
    /\ ret.page = pages[last.page.URL]

\* C10. GetPage, NumPages and SizePages never change pages or urls; a GetPage
\* of a stale page reports not-found and leaves the page stored, counted, and at
\* its place in urls, so the URL that is evicted next stays the same.
ReadStep ==
    /\ last'.op \in {"GetPage", "NumPages", "SizePages"}
          => /\ pages' = pages
             /\ urls' = urls
    /\ (last'.op = "GetPage" /\ last'.page.URL \in DOMAIN pages /\ timeout > 0
            /\ now - pages[last'.page.URL].MadeAt >= timeout)
          => /\ ~ret'.found
             /\ last'.page.URL \in DOMAIN pages'
             /\ NumOf(pages') = NumOf(pages)
             /\ SizeOf(pages') = SizeOf(pages)
             /\ urls' = urls
ReadsChangeNothing == [][ReadStep]_vars

\* A GetPage that did not find a page that is stored, but stale, in a cache of
\* several pages at its page limit.
StaleWitness ==
    /\ last.op = "GetPage"
    /\ ~ret.found
    /\ last.page.URL \in DOMAIN pages
    /\ Len(urls) >= 2
    /\ NumOf(pages) = maxPages

\* C11. RemovePage(url) of a URL that is not stored leaves pages and urls
\* unchanged and does not fail; RemovePage(url) of a stored URL takes exactly
\* that URL out of pages and out of urls and leaves every other URL stored with
\* its page; a second RemovePage(url) changes nothing any more.
RemoveStep ==
    last'.op = "RemovePage" =>
        LET u == last'.page.URL
            after == [pages |-> pages', urls |-> urls', panicked |-> panicked']
        IN  /\ u \notin DOMAIN pages => (pages' = pages /\ urls' = urls)
            /\ DOMAIN pages' = (DOMAIN pages) \ {u}
            /\ Range(urls') = Range(urls) \ {u}
            /\ Len(urls') = Cardinality(Range(urls'))
            /\ \A v \in DOMAIN pages' : pages'[v] = pages[v]
            /\ RemovePageOn(after, u) = after
            /\ ~panicked'
RemoveExact == [][RemoveStep]_vars

\* A RemovePage of a stored URL that left other URLs stored.
RemoveWitness ==
    /\ last.op = "RemovePage"
    /\ last.old # NoPage
    /\ last.evicted = {last.page.URL}
    /\ Len(urls) >= 2

\* C12. After ClearPages the number of pages and their total size are 0, urls
\* is empty and GetPage finds no URL; maxPages, maxSize and the timeout are as
\* they were.
ClearStep ==
    last'.op = "ClearPages" =>
        /\ NumOf(pages') = 0
        /\ SizeOf(pages') = 0
        /\ urls' = <<>>
        /\ \A u \in URLs : ~GetPageOn(pages', u, timeout', now').found
        /\ maxPages' = maxPages
        /\ maxSize' = maxSize
        /\ timeout' = timeout
ClearResets == [][ClearStep]_vars

\* A ClearPages that emptied a cache of several pages, under a page limit and a
\* timeout.
ClearWitness ==
    /\ last.op = "ClearPages"
    /\ Cardinality(last.evicted) >= 2
    /\ maxPages > 0
    /\ timeout > 0
    /\ pages = <<>>

\* C13. SetMaxPages and SetMaxSize change only their limit and leave pages and
\* urls unchanged, also when the new limit is below the current number or size
\* of the pages; an accepted AddPage (the first one after the change included)
\* evicts until, when it returns, the number of pages is <= maxPages (if > 0) and
\* their total size is <= maxSize (if > 0).
LimitStep ==
    /\ last'.op = "SetMaxPages" =>
          /\ maxPages' = last'.arg
          /\ UNCHANGED <<pages, urls, maxSize, timeout>>
    /\ last'.op = "SetMaxSize" =>
          /\ maxSize' = last'.arg
          /\ UNCHANGED <<pages, urls, maxPages, timeout>>
    /\ (last'.op = "AddPage" /\ ~Refused(last'.page, maxSize)) =>
          /\ ~panicked'
          /\ last'.page.URL \in DOMAIN pages'
          /\ maxPages > 0 => NumOf(pages') <= maxPages
          /\ maxSize > 0 => SizeOf(pages') <= maxSize
LimitChange == [][LimitStep]_vars

\* An accepted AddPage, with no byte limit, that had to evict two pages or more:
\* the page limit had been lowered below the number of stored pages.
LimitWitness ==
    /\ last.op = "AddPage"
    /\ last.page.URL \in DOMAIN pages
    /\ maxSize <= 0
    /\ maxPages > 0
    /\ Cardinality(last.evicted) >= 2

\* C19. One caller: if before AddPage(p) (maxPages <= 0 or the number of pages
\* is < maxPages) and (maxSize <= 0 or their total size + p.Size() <= maxSize),
\* every URL stored before the call, other than p.URL, is stored after it with
\* the same page, and p.URL, if not empty, holds p.
NoNeedlessStep ==
    (/\ last'.op = "AddPage"
     /\ maxPages <= 0 \/ NumOf(pages) < maxPages
     /\ maxSize <= 0 \/ SizeOf(pages) + last'.page.Size <= maxSize)
        => /\ \A u \in (DOMAIN pages) \ {last'.page.URL} :
                  u \in DOMAIN pages' /\ pages'[u] = pages[u]
           /\ last'.evicted = {}
           /\ last'.page.URL # "" =>
                  (last'.page.URL \in DOMAIN pages'
                      /\ pages'[last'.page.URL] = last'.page)
NoNeedlessEviction == [][NoNeedlessStep]_vars

\* An accepted AddPage that filled the cache exactly to both of its limits
\* and evicted nothing.
NoNeedlessWitness ==
    /\ last.op = "AddPage"
    /\ last.old = NoPage
    /\ last.page.URL \in DOMAIN pages
    /\ last.evicted = {}
    /\ maxPages > 0
    /\ NumOf(pages) = maxPages
    /\ maxSize > 0
    /\ SizeOf(pages) = maxSize
    /\ Len(urls) >= 2

\* C20. Removing one URL from urls (by RemovePage, by an eviction, or as the
\* first half of a re-insertion) leaves the other URLs in the order they had.
\* (The URL an AddPage inserts is the one that moves, to the end.)
Before(us, u, v) == FirstIndex(us, u) < FirstIndex(us, v)
OrderKeptStep ==
    LET moved == IF last'.op = "AddPage" THEN {last'.page.URL} ELSE {}
        rest == (Range(urls) \cap Range(urls')) \ moved
    IN  \A u, v \in rest : Before(urls, u, v) => Before(urls', u, v)
OrderKept == [][OrderKeptStep]_vars

\* C14. Goroutines calling AddPage concurrently, limits fixed: in every state
\* in which no goroutine holds the write lock, the number of pages is
\* <= maxPages (if maxPages > 0) and their total size is <= maxSize (if
\* maxSize > 0); in particular when all the calls have returned.
ConcBounds ==
    mu.writer = 0 =>
        /\ maxPages > 0 => NumOf(pages) <= maxPages
        /\ maxSize > 0 => SizeOf(pages) <= maxSize

\* C15. Goroutines calling AddPage, RemovePage, ClearPages and GetPage
\* concurrently: whenever a goroutine holds the read lock no write is in
\* progress, the URLs in urls are exactly the keys of pages and no URL occurs
\* twice in urls; and when no write is in progress, the URL of the AddPage that
\* took the write lock last, if it is stored, occurs once in urls and holds
\* that call's page.
ReadersSeeConsistent ==
    /\ mu.readers # {} => (mu.writer = 0 /\ Consistent)
    /\ (mu.writer = 0 /\ last.op = "AddPage" /\ last.page.URL \in DOMAIN pages)
          => /\ pages[last.page.URL] = last.page
             /\ Occurrences(urls, last.page.URL) = 1

\* A GetPage holds the read lock on a cache where the URL it looks up holds the
\* page of the AddPage that locked last, which replaced another page of that
\* URL, while the other goroutine waits for the write lock to store a third
\* page under the same URL.
ReadersWitness ==
    \E t, w \in Procs :
        /\ t \in mu.readers
        /\ procs[t].pc = "get_read"
        /\ procs[w].pc = "st_lock"
        /\ last.op = "AddPage"
        /\ last.old # NoPage
        /\ last.old # last.page
        /\ procs[t].victim = last.page.URL
        /\ procs[w].page.URL = last.page.URL
        /\ procs[w].page # last.page
        /\ last.page.URL \in DOMAIN pages

\* C16. Goroutines calling AddPage, RemovePage and ClearPages concurrently:
\* no AddPage fails; whenever an AddPage is about to read urls[0] as the URL
\* to evict, urls is not empty.
HeadNonEmpty ==
    /\ ~panicked
    /\ \A t \in Procs : procs[t].pc \in {"cnt_head", "sz_head"} => urls # <<>>

\* C17. Every read of pages or urls is made by a goroutine that holds the lock
\* (read lock or write lock), every write by a goroutine that holds the write
\* lock; the read of urls[0] in AddPage's loops included.
ReadStatements == {"cnt_read", "sz_read", "get_read", "cnt_head", "sz_head"}
WriteStatements ==
    {"rm_del", "rm_url", "st_put", "st_rm", "st_app", "clr_pages", "clr_urls"}
LockDiscipline ==
    \A t \in Procs :
        /\ procs[t].pc \in ReadStatements => (t \in mu.readers \/ mu.writer = t)
        /\ procs[t].pc \in WriteStatements => mu.writer = t

\* C18. No goroutine asks for the lock while it holds it, and every call
\* returns: in every state in which a call is in progress some goroutine can
\* take a step (no call is stuck for ever).
LockStatements ==
    {"cnt_rlock", "sz_rlock", "get_rlock", "st_lock", "rm_lock", "clr_lock"}
NoRecursiveLock ==
    \A t \in Procs :
        procs[t].pc \in LockStatements => (mu.writer # t /\ t \notin mu.readers)
EveryCallReturns ==
    /\ NoRecursiveLock
    /\ (\E t \in Procs : procs[t].pc # "idle") => ENABLED NextConc

====
